---- MODULE Spec2Model ----
(***************************************************************************)
(* A model of the supersprite rendering pipeline bundled in this           *)
(* repository.  Two bundles of the library are in the source tree:         *)
(*   "build" : src/build/main.js     (static Shader class, two programs)   *)
(*   "next"  : src/unnamed/part_000  (supersprite object, one main program)*)
(* The variable `variant` says which bundle a behaviour runs.              *)
(*                                                                         *)
(* JavaScript numbers are modelled as exact rationals <<n, d>> (d > 0, in  *)
(* lowest terms); `undefined` is the value Undefined.  The host runs every *)
(* callback to completion, so a resize handler runs only while no frame    *)
(* callback is executing.                                                  *)
(***************************************************************************)
EXTENDS Integers, Sequences, FiniteSets, TLC

\* ------------------------------------------------------------------ numbers

\* `undefined` where a number is expected (falsy, like 0 and NaN)
Undefined == <<0, 0>>

Abs(x) == IF x < 0 THEN -x ELSE x

RECURSIVE GCD(_, _)
GCD(a, b) == IF b = 0 THEN a ELSE GCD(b, a % b)

\* The rational n/d in lowest terms with a positive denominator.
Rat(n, d) ==
    LET s == IF d < 0 THEN -1 ELSE 1
        g == GCD(Abs(n), Abs(d))
    IN  <<(s * n) \div g, (s * d) \div g>>

Num(n) == <<n, 1>>

\* a + b over the least common denominator
RAdd(a, b) ==
    LET g == GCD(a[2], b[2])
    IN  Rat(a[1] * (b[2] \div g) + b[1] * (a[2] \div g), (a[2] \div g) * b[2])
RNeg(a) == <<-a[1], a[2]>>
RMul(a, b) == Rat(a[1] * b[1], a[2] * b[2])
RDiv(a, b) == Rat(a[1] * b[2], a[2] * b[1])
RLt(a, b) == a[1] * b[2] < b[1] * a[2]
RLe(a, b) == a[1] * b[2] <= b[1] * a[2]
\* Math.max
RMax(a, b) == IF RLt(a, b) THEN b ELSE a
RMin(a, b) == IF RLt(b, a) THEN b ELSE a
\* Math.floor
RFloor(a) == Num(a[1] \div a[2])
IsInt(a) == a[2] = 1

\* JavaScript's remainder: the result has the sign of the dividend.
JSRem(a, k) == IF a < 0 THEN -((-a) % k) ELSE a % k
\* x % k for a rational x and a positive integer k.
RRem(x, k) ==
    LET q == (Abs(x[1])) \div (x[2] * k)          \* trunc(|x| / k)
        r == Abs(x[1]) - q * k * x[2]
    IN  Rat(IF x[1] < 0 THEN -r ELSE r, x[2])

\* a || b
Truthy(a) == a[2] # 0 /\ a[1] # 0
Or(a, b) == IF Truthy(a) THEN a ELSE b

\* ---------------------------------------------------------------- constants

\* the ceiling of the frame timer
TimerCeiling == 4096
\* the logical size the "next" bundle falls back to
defaultWidth == 400
defaultHeight == 240

\* ------------------------------------------------------------------- bounds

\* Frames a behaviour of Spec runs.
MaxFrames == 2
\* Matrix method calls a behaviour of SpecMatrix makes.
MaxOps == 2

\* ------------------------------------------------------------------- inputs

Variants == {"build", "next"}

\* window.innerWidth, window.innerHeight
Windows == {<<850, 500>>, <<500, 450>>, <<900, 850>>, <<300, 200>>, <<240, 400>>, <<400, 400>>}

\* the sprites of the atlas
spr == [bowser |-> [width |-> 28, height |-> 42, originX |-> 0, originY |-> 0, images |-> 1],
        mario  |-> [width |-> 16, height |-> 32, originX |-> 8, originY |-> 0, images |-> 4]]
SpriteNames == {"bowser", "mario"}

\* image arguments of draw.sprite
ImageArgs == {Num(-1), Num(0), Num(1), <<3, 2>>, Num(4), Num(5)}
\* speed arguments of draw.spriteSpeed (images per frame, positive)
Speeds == {<<1, 5>>, <<1, 2>>, Num(1), <<3, 2>>}
\* colour arguments of a primitive draw: a Color; r, g and b; r without g and
\* b; no colour at all
ColorArgs == {"Color", "rgb", "missing", "none"}
\* the primitive draws
Shapes == {"line", "rect", "circle", "primitive"}

\* the options object given to initialize
OptionSets(views, displays) ==
    [responsive : {"undefined", "stretch", "scale"},
     maintainAspectRatio : BOOLEAN,
     scalePerfectly : BOOLEAN,
     view : views,
     display : displays,
     atlasURL : BOOLEAN]
NoSize == <<Undefined, Undefined>>
Options == OptionSets({NoSize, <<Num(400), Num(240)>>}, {NoSize, <<Num(800), Num(480)>>})

\* The steps of building a shader program that the GPU context may fail.
Steps == {"vertexCreate", "vertexCompile", "fragmentCreate", "fragmentCompile",
          "programCreate", "link", "positionAttribute", "positionUniform",
          "blendUniform", "textureAttribute", "textureUniform", "buffer",
          "atlasUniform", "useTextureUniform", "vao"}
NoFaults == [image |-> {}, primitive |-> {}]

\* ------------------------------------------------------- responsive resize

\* The arguments of a setProjection call.
Args(vw, vh, dw, dh) == [viewWidth |-> vw, viewHeight |-> vh, displayWidth |-> dw, displayHeight |-> dh]
\* resizeCanvas returned without calling setProjection
NoCall == Args(Undefined, Undefined, Undefined, Undefined)

\* The fields setProjection stores.
setProjection(a) ==
    [viewWidth     |-> a.viewWidth,
     viewHeight    |-> a.viewHeight,
     displayWidth  |-> Or(a.displayWidth, a.viewWidth),
     displayHeight |-> Or(a.displayHeight, a.viewHeight)]

\* (mutant) the pixel-perfect floor left out
scaleBuildNoFloor(perfect, vw, vh, W, H) ==
    RMax(IF H > W THEN RDiv(Num(W), vw) ELSE RDiv(Num(H), vh), Num(1))

\* `scale` of resizeCanvas, case 'scale' with maintainAspectRatio (build bundle)
scaleBuild(perfect, vw, vh, W, H) ==
    LET scale0 == IF H > W THEN RDiv(Num(W), vw) ELSE RDiv(Num(H), vh)
        scale1 == RMax(scale0, Num(1))
    IN  IF perfect THEN RFloor(scale1) ELSE scale1

\* `scale` of resizeCanvas, case 'scale' with maintainAspectRatio (next bundle)
scaleNext(perfect, vw, vh, W, H) ==
    LET scale0 == IF W > H THEN RDiv(Num(H), vh) ELSE RDiv(Num(W), vw)
        scale1 == RMax(scale0, Num(1))
    IN  IF perfect THEN RFloor(scale1) ELSE scale1

\* case 'stretch' with maintainAspectRatio (build bundle)
stretchBuild(vw, vh, W, H) ==
    LET ratio == RDiv(vw, vh)
    IN  IF W > H
        THEN LET newHeight == Num(H) IN Args(RMul(newHeight, ratio), newHeight, Undefined, Undefined)
        ELSE LET newWidth == Num(W) IN Args(newWidth, RDiv(newWidth, ratio), Undefined, Undefined)

\* case 'stretch' with maintainAspectRatio (next bundle): newWidth is computed
\* from newHeight while newHeight still holds viewHeight
stretchNext(vw, vh, W, H) ==
    LET ratio == RDiv(vw, vh)
    IN  IF W > H
        THEN LET newWidth == RMul(vh, ratio) IN Args(newWidth, Num(H), Undefined, Undefined)
        ELSE LET newWidth == Num(W) IN Args(newWidth, RDiv(newWidth, ratio), Undefined, Undefined)

\* (mutant) case 'scale' passing the scaled size as the logical size
resizeCanvasScaledView(v, resp, aspect, perfect, vw, vh, W, H) ==
    CASE resp = "stretch" ->
            IF aspect
            THEN IF v = "build" THEN stretchBuild(vw, vh, W, H) ELSE stretchNext(vw, vh, W, H)
            ELSE Args(Num(W), Num(H), Undefined, Undefined)
      [] resp = "scale" ->
            IF aspect
            THEN LET scale == IF v = "build" THEN scaleBuild(perfect, vw, vh, W, H)
                                             ELSE scaleNext(perfect, vw, vh, W, H)
                 IN  Args(RMul(vw, scale), RMul(vh, scale), Undefined, Undefined)
            ELSE Args(Num(W), Num(H), Undefined, Undefined)
      [] OTHER -> NoCall

\* The setProjection call resizeCanvas makes, or NoCall.
resizeCanvas(v, resp, aspect, perfect, vw, vh, W, H) ==
    CASE resp = "stretch" ->
            IF aspect
            THEN IF v = "build" THEN stretchBuild(vw, vh, W, H) ELSE stretchNext(vw, vh, W, H)
            ELSE Args(Num(W), Num(H), Undefined, Undefined)
      [] resp = "scale" ->
            IF aspect
            THEN LET scale == IF v = "build" THEN scaleBuild(perfect, vw, vh, W, H)
                                             ELSE scaleNext(perfect, vw, vh, W, H)
                 IN  Args(vw, vh, RMul(vw, scale), RMul(vh, scale))
            ELSE Args(vw, vh, Num(W), Num(H))
      [] OTHER -> NoCall

\* ------------------------------------------------------------ image index

\* sprite.images[i] exists
ImageExists(k, i) == i >= 0 /\ i < k

\* The index drawSprite reads sprite.images at: Math.floor, then % when
\* there is no image at the floored index.
limitImage(k, image) ==
    LET f == RFloor(image)[1]
    IN  IF ImageExists(k, f) THEN f ELSE JSRem(f, k)

\* (mutant) the timer counted from zero in the first frame
speedToImageZeroBased(timer, speed, k) == RRem(RMul(Num(IF timer > 0 THEN timer - 1 ELSE 0), speed), k)

\* (internalTimer * speed) % sprite.images.length
speedToImage(timer, speed, k) == RRem(RMul(Num(timer), speed), k)

\* (mutant) the wrap tested before the increment
timerStepLate(t) == IF t > TimerCeiling THEN 0 ELSE t + 1

\* this.internalTimer++; if (this.internalTimer > 4096) this.internalTimer = 0
timerStep(t) == IF t + 1 > TimerCeiling THEN 0 ELSE t + 1

\* ------------------------------------------------------------------ Matrix

\* A Matrix's `values`: nine numbers, row after row.
identity == <<Num(1), Num(0), Num(0), Num(0), Num(1), Num(0), Num(0), Num(0), Num(1)>>

Dot3(x1, y1, x2, y2, x3, y3) == RAdd(RAdd(RMul(x1, y1), RMul(x2, y2)), RMul(x3, y3))

\* (mutant) multiply with the operands' roles exchanged
multiplySwapped(this, mat) ==
    [n \in 1..9 |->
        LET i == (n - 1) \div 3
            j == (n - 1) % 3
        IN  Dot3(this[i * 3 + 1], mat[j + 1], this[i * 3 + 2], mat[3 + j + 1],
                 this[i * 3 + 3], mat[6 + j + 1])]

\* (mutant) multiply reading the receiver's entries by column
multiplyTransposed(this, mat) ==
    [n \in 1..9 |->
        LET i == (n - 1) \div 3
            j == (n - 1) % 3
        IN  Dot3(mat[i * 3 + 1], this[j * 3 + 1], mat[i * 3 + 2], this[j * 3 + 2],
                 mat[i * 3 + 3], this[j * 3 + 3])]

\* this.values after this.multiply(mat): entry i*3+j is
\* b[i][0] * a[0][j] + b[i][1] * a[1][j] + b[i][2] * a[2][j], a being this
\* and b being mat.
multiply(this, mat) ==
    [n \in 1..9 |->
        LET i == (n - 1) \div 3
            j == (n - 1) % 3
        IN  Dot3(mat[i * 3 + 1], this[j + 1], mat[i * 3 + 2], this[3 + j + 1],
                 mat[i * 3 + 3], this[6 + j + 1])]

\* (mutant) translate with the offsets in the last column
translationColumn(tx, ty) == <<Num(1), Num(0), tx, Num(0), Num(1), ty, Num(0), Num(0), Num(1)>>

\* The matrices translate, rotate and scale multiply by; rotate is given the
\* cosine c and the sine s of its angle.
translation(tx, ty) == <<Num(1), Num(0), Num(0), Num(0), Num(1), Num(0), tx, ty, Num(1)>>
rotation(c, s) == <<c, RNeg(s), Num(0), s, c, Num(0), Num(0), Num(0), Num(1)>>
scaling(sx, sy) == <<sx, Num(0), Num(0), Num(0), sy, Num(0), Num(0), Num(0), Num(1)>>

\* (mutant) the build bundle's projection without the vertical flip
MatrixProjectionUnflipped(v, w, h) ==
    <<RDiv(Num(2), w), Num(0), Num(0),
      Num(0), RDiv(Num(2), h), Num(0),
      Num(-1), Num(1), Num(1)>>

\* Matrix.projection(viewWidth, viewHeight)
MatrixProjection(v, w, h) ==
    IF v = "build"
    THEN <<RDiv(Num(2), w), Num(0), Num(0),
           Num(0), RDiv(Num(-2), h), Num(0),
           Num(-1), Num(1), Num(1)>>
    ELSE <<RDiv(Num(2), w), Num(0), Num(0),
           Num(0), RDiv(Num(2), h), Num(0),
           Num(-1), Num(-1), Num(1)>>

\* gl_Position.xy = (u_positionMatrix * vec3(a_position, 1)).xy, the nine
\* values being uploaded untransposed (each row of `values` is a column of the
\* mat3).
Position(m, x, y) ==
    <<Dot3(m[1], x, m[4], y, m[7], Num(1)), Dot3(m[2], x, m[5], y, m[8], Num(1))>>

\* ---------------------------------------------------------- sprite draws

\* A transform callback: none, or one that chains one call on the matrix it
\* is given and returns it.
NoTransform == [op |-> "none", a |-> Num(0), b |-> Num(0)]

\* mat = transformFn(mat)
transformFn(mat, t) ==
    CASE t.op = "translate" -> multiply(mat, translation(t.a, t.b))
      [] t.op = "scale"     -> multiply(mat, scaling(t.a, t.b))
      [] t.op = "rotate"    -> multiply(mat, rotation(t.a, t.b))
      [] OTHER              -> mat

\* (mutant) the origin moved in pixels
spritePositionMatrixPixels(proj, sprite, x, y, t) ==
    LET m0 == multiply(multiply(proj, translation(x, y)),
                       scaling(Num(sprite.width), Num(sprite.height)))
        m1 == transformFn(m0, t)
    IN  IF sprite.originX # 0 \/ sprite.originY # 0
        THEN multiply(m1, translation(Num(-sprite.originX), Num(-sprite.originY)))
        ELSE m1

\* The position matrix drawSprite uploads: a copy of the projection,
\* translated to (x, y), scaled to the sprite's size, given to the transform
\* callback and then moved by the sprite's origin in units of its size.
spritePositionMatrix(proj, sprite, x, y, t) ==
    LET m0 == multiply(multiply(proj, translation(x, y)),
                       scaling(Num(sprite.width), Num(sprite.height)))
        m1 == transformFn(m0, t)
    IN  IF sprite.originX # 0 \/ sprite.originY # 0
        THEN multiply(m1, translation(Rat(-sprite.originX, sprite.width),
                                      Rat(-sprite.originY, sprite.height)))
        ELSE m1

\* The argument of a position-matrix upload.  A sprite draw's matrix is kept
\* as the steps drawSprite builds it by, on the values `base` its copy of the
\* projection starts from; any other upload is the values `base` themselves.
\* `values` gives the nine numbers that reach the uniform.
plain(m) == [base |-> m, sprite |-> "none", x |-> Num(0), y |-> Num(0),
             transform |-> NoTransform]
spriteMatrix(proj, name, x, y, t) ==
    [base |-> proj, sprite |-> name, x |-> x, y |-> y, transform |-> t]
values(m) ==
    IF m.sprite = "none" THEN m.base
    ELSE spritePositionMatrix(m.base, spr[m.sprite], m.x, m.y, m.transform)

\* (mutant) copy() handing out the object it is called on
copyShared(object) == object

\* Matrix.copy(): a new Matrix over a new array of the same values.
copy(object) == <<"copy">> \o object

\* Colour arguments of a sprite draw: none, a Color, or separate channels
\* (an array in the next bundle) of which some may be undefined.
NoChannels == <<Undefined, Undefined, Undefined, Undefined>>
NoColor == [kind |-> "none", c |-> NoChannels]
Opaque == <<Num(1), Num(1), Num(1), Num(1)>>
Defined(x) == x # Undefined

\* The blend uniform drawSprite sets for the colour arguments it is given.
spriteBlend(v, color) ==
    LET c == color.c
    IN  IF color.kind = "Color" THEN c
        ELSE IF color.kind = "none" THEN Opaque
        ELSE IF v = "build"
             THEN IF Defined(c[1]) /\ Defined(c[2]) /\ Defined(c[3])
                  THEN <<c[1], c[2], c[3], IF Defined(c[4]) THEN c[4] ELSE Num(1)>>
                  ELSE Opaque
             ELSE [i \in 1..4 |-> IF Defined(c[i]) THEN c[i] ELSE Num(1)]

\* The colour arguments drawSpriteSpeed hands on to drawSprite: the build
\* bundle hands on separate channels only when `rcol && g && b`.
speedColor(v, color) ==
    IF v = "build" /\ color.kind = "rgb"
    THEN IF Truthy(color.c[1]) /\ Truthy(color.c[2]) /\ Truthy(color.c[3])
         THEN color ELSE NoColor
    ELSE color

\* The matrix render / endRender draws the game texture with.
gameTexturePositionMatrix ==
    <<Num(2), Num(0), Num(0), Num(0), Num(-2), Num(0), Num(-1), Num(1), Num(1)>>

\* The projection prepareDrawing is given when the next bundle is
\* initialized, which its preparePrimitive uploads.
closureProjection == MatrixProjection("next", Num(400), Num(240))

\* A canvas's width and height and a texture's size are integers: the number
\* assigned is truncated.
ToLong(x) == IF x[2] = 0 THEN Num(0) ELSE RFloor(x)

\* cv1.width = displayWidth || viewWidth (cv2 takes cv1's size) and
\* texImage2D(..., viewWidth, viewHeight, ...) for the fields p that
\* setProjection stores.
canvasSize(p) == <<ToLong(p.displayWidth), ToLong(p.displayHeight)>>
textureSize(p) == <<ToLong(p.viewWidth), ToLong(p.viewHeight)>>

\* The size initialize gives both canvases before anything else is set up.
initialCanvas(opt, W, H) ==
    <<ToLong(Or(opt.display[1], Or(opt.view[1], Num(W)))),
      ToLong(Or(opt.display[2], Or(opt.view[2], Num(H))))>>

\* ------------------------------------------------------- shader programs

\* (mutant) the blend uniform's lookup left unchecked
ctorStepsNoBlend(useTexture) ==
    <<"vertexCreate", "vertexCompile", "fragmentCreate", "fragmentCompile",
      "programCreate", "link", "positionAttribute", "positionUniform">>
    \o (IF useTexture THEN <<"textureAttribute", "textureUniform">> ELSE <<>>)
    \o <<"buffer">>

\* The steps of `new Shader(opt)` in the order the constructor takes them.
ctorSteps(useTexture) ==
    <<"vertexCreate", "vertexCompile", "fragmentCreate", "fragmentCompile",
      "programCreate", "link", "positionAttribute", "positionUniform", "blendUniform">>
    \o (IF useTexture THEN <<"textureAttribute", "textureUniform">> ELSE <<>>)
    \o <<"buffer">>

\* The steps of prepareMainShader that throw when they fail (the two
\* attribute lookups are not checked there).
prepareSteps ==
    <<"vertexCreate", "vertexCompile", "fragmentCreate", "fragmentCompile",
      "programCreate", "link", "buffer", "positionUniform", "textureUniform",
      "atlasUniform", "blendUniform", "useTextureUniform", "vao">>

\* The first step of `steps` that fails, or "ok".
FirstFault(steps, faults) ==
    IF \E i \in DOMAIN steps : steps[i] \in faults
    THEN steps[CHOOSE i \in DOMAIN steps :
                   /\ steps[i] \in faults
                   /\ \A j \in 1..(i - 1) : steps[j] \notin faults]
    ELSE "ok"

\* The GPU object a step creates when it succeeds.
creates(step) ==
    CASE step = "vertexCreate"   -> {"vertexShader"}
      [] step = "fragmentCreate" -> {"fragmentShader"}
      [] step = "programCreate"  -> {"program"}
      [] step = "buffer"         -> {"buffer"}
      [] step = "vao"            -> {"vao"}
      [] OTHER                   -> {}

\* The GPU objects deleted before the error of a failed step is thrown.
deletes(v, step) ==
    CASE step = "vertexCompile"       -> {"vertexShader"}
      [] step = "fragmentCompile"     -> {"fragmentShader"}
      [] step = "link" /\ v = "build" -> {"program"}
      [] OTHER                        -> {}

\* The GPU objects allocated when a construction taking `steps` ends, by
\* returning or by throwing at its first failing step.
allocated(v, steps, faults) ==
    LET f == FirstFault(steps, faults)
        done == IF f = "ok" THEN DOMAIN steps
                ELSE {i \in DOMAIN steps : \A j \in 1..i : steps[j] \notin faults}
    IN  UNION {creates(steps[i]) : i \in done} \ (IF f = "ok" THEN {} ELSE deletes(v, f))

\* new Shader(opt): "ok", or the step whose failure it throws ShaderError for.
Shader(useTexture, faults) == FirstFault(ctorSteps(useTexture), faults)

\* prepareMainShader(gl, options): "ok", or the step it throws at.
prepareMainShader(faults) == FirstFault(prepareSteps, faults)

\* -------------------------------------------------------------------- state

VARIABLES
    variant,              \* which bundle runs
    gpuFaults,            \* the steps the GPU context fails, per shader program
    win,                  \* <<window.innerWidth, window.innerHeight>>
    pc,                   \* "start", "failed", "loading", "loadFailed", "main" (the main loop
                          \* is being called), "frame", "idle" (waiting for the next frame
                          \* callback), "dead" (a frame callback threw)
    responsive, maintainAspectRatio, scalePerfectly,
    atlasURL,             \* an atlas is loaded before the main loop starts
    viewWidth, viewHeight, displayWidth, displayHeight,
    canvas,               \* <<width, height>> of cv1 and of cv2, which takes cv1's size
    gameTextureSize,      \* <<width, height>> the game texture is allocated at
    projection,           \* Shader.projection's values, <<>> before the first setProjection
    internalTimer,
    shaders,              \* the shader objects installed: imageShader, primitiveShader, main
    gpuObjects,           \* the GPU objects each program's construction left allocated
    positionUniform,      \* the last upload to each program's position-matrix uniform
    currentProgram,       \* Shader.currentProgram
    glProgram,            \* the program the GPU context has in use
    lastUse,              \* what the last Shader.use call did (history)
    boundFramebuffer,     \* "none", "logical" (the game texture's framebuffer) or "display"
    atlasTexture,
    loads,                \* atlas loads issued and settled so far (history)
    err,                  \* the error the last operation raised, or "none"
    request,              \* the draw the frame callback asked for last (history)
    drawn,                \* the last GPU draw call since the last clear
    frames,               \* beginRender calls so far (history)
    resized,              \* a resize notification has been handled (history)
    projected,            \* the handler that ran setProjection in the last step, or "none"
    mats,                 \* the values of the Matrix objects of SpecMatrix
    last,                 \* the last Matrix method call (history)
    ops                   \* Matrix method calls so far (history)

\* what the pipeline's operations leave alone: the bundle, the GPU context's
\* faults and the Matrix objects
outside == <<variant, gpuFaults, mats, last, ops>>
config == <<outside, responsive, maintainAspectRatio, scalePerfectly, atlasURL>>
surfaces == <<viewWidth, viewHeight, displayWidth, displayHeight, canvas, gameTextureSize>>
sizes == <<surfaces, projection>>
built == <<shaders, gpuObjects>>
programs == <<built, currentProgram, glProgram, lastUse>>
atlas == <<atlasTexture, loads>>
vars == <<config, win, pc, sizes, internalTimer, programs, positionUniform,
          boundFramebuffer, atlas, err, request, drawn, frames, resized, projected>>

Programs == {"image", "primitive", "main"}

NoRequest == [op |-> "none", sprite |-> "none", arg |-> Num(0), x |-> Num(0), y |-> Num(0),
              transform |-> NoTransform, color |-> NoColor]

NoDraw == [kind |-> "none", sprite |-> "none", arg |-> Num(0), image |-> 0,
           fb |-> "none", program |-> "null", matrix |-> plain(<<>>), blend |-> <<>>]

NoUse == [program |-> "null", current |-> FALSE, bind |-> FALSE, upload |-> "none"]

NoLoads == [issued |-> 0, succeeded |-> 0, failed |-> 0]

NoOp == [op |-> <<"none", 0>>, self |-> 0, arg |-> <<>>, ret |-> 0, before |-> <<>>]

\* No Matrix object is in play.
NoMatrices == mats = <<>> /\ last = NoOp /\ ops = 0

\* The state before initialize runs, in one of the given environments.
InitIn(variants, windows, faults) ==
    /\ variant \in variants
    /\ gpuFaults \in faults
    /\ win \in windows
    /\ pc = "start"
    /\ responsive = "unset"
    /\ maintainAspectRatio = FALSE
    /\ scalePerfectly = FALSE
    /\ atlasURL = FALSE
    /\ viewWidth = Undefined /\ viewHeight = Undefined
    /\ displayWidth = Undefined /\ displayHeight = Undefined
    /\ canvas = <<Undefined, Undefined>>
    /\ gameTextureSize = <<Undefined, Undefined>>
    /\ projection = <<>>
    /\ internalTimer = 0
    /\ shaders = {}
    /\ gpuObjects = [p \in Programs |-> {}]
    /\ positionUniform = [p \in Programs |-> plain(<<>>)]
    /\ currentProgram = "null"
    /\ glProgram = "null"
    /\ lastUse = NoUse
    /\ boundFramebuffer = "none"
    /\ atlasTexture = "none"
    /\ loads = NoLoads
    /\ err = "none"
    /\ request = NoRequest
    /\ drawn = NoDraw
    /\ frames = 0
    /\ resized = FALSE
    /\ projected = "none"

\* ------------------------------------------------------------------------ use

\* (mutant) use binding the program on every call
useBindsAlways(current, program) == TRUE

\* (mutant) use binding only while no program is recorded
useBindsFirst(current, program) == current = "null"

\* (mutant) use recording the program without binding it
useBindsNever(current, program) == FALSE

\* if (Shader.currentProgram !== this)
useBinds(current, program) == current # program

\* shader.use(positions) of the build bundle on the program state st: the
\* positions are uploaded to the shader's buffer on every call, the program is
\* bound when it is not the current one.
use(st, program, positions) ==
    [currentProgram |-> program,
     glProgram      |-> IF useBinds(st.currentProgram, program) THEN program ELSE st.glProgram,
     lastUse        |-> [program |-> program,
                         current |-> st.currentProgram = program,
                         bind    |-> useBinds(st.currentProgram, program),
                         upload  |-> positions]]

\* ---------------------------------------------------------------- initialize

\* The sizes after Shader.init's / initialize's setProjection and the first
\* resizeCanvas().
InitialSizes(v, opt, resp, aspect, perfect, W, H) ==
    LET vw0 == Or(opt.view[1], IF v = "build" THEN Num(W) ELSE Num(defaultWidth))
        vh0 == Or(opt.view[2], IF v = "build" THEN Num(H) ELSE Num(defaultHeight))
        p0 == setProjection(Args(vw0, vh0, opt.display[1], opt.display[2]))
        call == resizeCanvas(v, resp, aspect, perfect, p0.viewWidth, p0.viewHeight, W, H)
    IN  IF call = NoCall THEN p0 ELSE setProjection(call)

\* The program state after Shader.init's setProjection and the one the first
\* resizeCanvas() makes, each activating the primitive shader.
InitialPrograms(calls) ==
    LET st0 == [currentProgram |-> "null", glProgram |-> "null", lastUse |-> NoUse]
        st1 == use(st0, "primitive", "positionOrder")
    IN  IF calls = 1 THEN st1 ELSE use(st1, "primitive", "positionOrder")

\* (mutant) the main loop called without waiting for the atlas
afterInitializeNoWait(url) == "main"

\* Where initialize leaves the program: waiting for the atlas when there is
\* one to load, else calling the main loop.
afterInitialize(url) == IF url THEN "loading" ELSE "main"

\* (mutant) only the image shader's construction error stopping Shader.init
initThrowsImageOnly(img, prim) == img # "ok"

\* Shader.init has no handler around `new Shader`: a constructor's
\* ShaderError leaves Shader.init and initialize.
initThrows(img, prim) == img # "ok" \/ prim # "ok"

\* The shaders Shader.init has stored when the constructors end as img and
\* prim; the primitive shader is constructed after the image shader.
installed(img, prim) ==
    (IF img = "ok" THEN {"image"} ELSE {})
        \cup (IF img = "ok" /\ prim = "ok" THEN {"primitive"} ELSE {})

\* initialize(options) of the build bundle, with Shader.init and the first
\* resizeCanvas(); the main loop is called at once when no atlas is loaded.
InitializeBuild(opt) ==
    /\ pc = "start" /\ variant = "build"
    /\ LET resp == IF opt.responsive = "undefined" THEN "static" ELSE opt.responsive
           img == Shader(TRUE, gpuFaults.image)
           prim == Shader(FALSE, gpuFaults.primitive)
           p == InitialSizes("build", opt, resp, opt.maintainAspectRatio, opt.scalePerfectly,
                             win[1], win[2])
           st == InitialPrograms(IF resp \in {"stretch", "scale"} THEN 2 ELSE 1)
       IN  /\ responsive' = resp
           /\ maintainAspectRatio' = opt.maintainAspectRatio
           /\ scalePerfectly' = opt.scalePerfectly
           /\ internalTimer' = 0
           /\ shaders' = installed(img, prim)
           /\ gpuObjects' =
                  [gpuObjects EXCEPT
                      !["image"] = allocated("build", ctorSteps(TRUE), gpuFaults.image),
                      !["primitive"] =
                          IF img = "ok"
                          THEN allocated("build", ctorSteps(FALSE), gpuFaults.primitive)
                          ELSE {}]
           /\ IF initThrows(img, prim)
              THEN /\ pc' = "failed"
                   /\ err' = "ShaderError"
                   /\ currentProgram' = "null"
                   /\ projected' = "none"
                   /\ canvas' = initialCanvas(opt, win[1], win[2])
                   /\ UNCHANGED <<viewWidth, viewHeight, displayWidth, displayHeight,
                                  gameTextureSize, projection, positionUniform, glProgram,
                                  lastUse, boundFramebuffer, atlasURL, loads>>
              ELSE /\ pc' = afterInitialize(opt.atlasURL)
                   /\ err' = "none"
                   /\ currentProgram' = st.currentProgram
                   /\ glProgram' = st.glProgram
                   /\ lastUse' = st.lastUse
                   /\ boundFramebuffer' = "logical"
                   /\ viewWidth' = p.viewWidth /\ viewHeight' = p.viewHeight
                   /\ displayWidth' = p.displayWidth /\ displayHeight' = p.displayHeight
                   /\ canvas' = canvasSize(p)
                   /\ gameTextureSize' = textureSize(p)
                   /\ projection' = MatrixProjection("build", p.viewWidth, p.viewHeight)
                   /\ positionUniform' =
                          [positionUniform EXCEPT
                              !["primitive"] =
                                  plain(MatrixProjection("build", p.viewWidth, p.viewHeight))]
                   /\ projected' = "initialize"
                   /\ atlasURL' = opt.atlasURL
                   /\ loads' = [loads EXCEPT !.issued = IF opt.atlasURL THEN @ + 1 ELSE @]
    /\ UNCHANGED <<outside, win, atlasTexture, request, drawn, frames, resized>>

\* init(options) of the next bundle followed by the loadTexture call of the
\* entry script; maintainAspectRatio and scalePerfectly come out true
\* whatever the options say.
InitializeNext(opt) ==
    /\ pc = "start" /\ variant = "next"
    /\ gpuObjects' = [gpuObjects EXCEPT
                          !["main"] = allocated("next", prepareSteps, gpuFaults.image)]
    /\ LET resp == IF opt.responsive = "undefined" THEN "scale" ELSE opt.responsive
           main == prepareMainShader(gpuFaults.image)
           p == InitialSizes("next", opt, resp, TRUE, TRUE, win[1], win[2])
       IN  IF main # "ok"
           THEN /\ pc' = "failed"
                /\ err' = "Error"
                /\ glProgram' = IF main = "vao" THEN "main" ELSE glProgram
                /\ projected' = "none"
                /\ canvas' = initialCanvas(opt, win[1], win[2])
                /\ UNCHANGED <<responsive, maintainAspectRatio, scalePerfectly, viewWidth,
                               viewHeight, displayWidth, displayHeight, gameTextureSize,
                               projection, shaders, boundFramebuffer, atlasURL, loads>>
           ELSE /\ pc' = afterInitialize(TRUE)
                /\ err' = "none"
                /\ responsive' = resp
                /\ maintainAspectRatio' = TRUE
                /\ scalePerfectly' = TRUE
                /\ shaders' = {"main"}
                /\ glProgram' = "main"
                /\ boundFramebuffer' = "logical"
                /\ viewWidth' = p.viewWidth /\ viewHeight' = p.viewHeight
                /\ displayWidth' = p.displayWidth /\ displayHeight' = p.displayHeight
                /\ canvas' = canvasSize(p)
                /\ gameTextureSize' = textureSize(p)
                /\ projection' = MatrixProjection("next", p.viewWidth, p.viewHeight)
                /\ projected' = "initialize"
                /\ atlasURL' = TRUE
                /\ loads' = [loads EXCEPT !.issued = @ + 1]
    /\ UNCHANGED <<outside, win, internalTimer, currentProgram, lastUse, positionUniform,
                   atlasTexture, request, drawn, frames, resized>>

\* (mutant) a failed load issued again
LoadFailRetry ==
    /\ pc = "loading"
    /\ loads.issued < 3
    /\ pc' = "loading"
    /\ err' = "LoadError"
    /\ loads' = [loads EXCEPT !.failed = @ + 1, !.issued = @ + 1]
    /\ projected' = "none"
    /\ UNCHANGED <<config, win, sizes, internalTimer, programs, positionUniform,
                   boundFramebuffer, atlasTexture, request, drawn, frames, resized>>

\* The atlas image loads: the promise resolves, the handle is stored and the
\* main loop is called.
LoadDone ==
    /\ pc = "loading"
    /\ atlasTexture' = "loaded"
    /\ loads' = [loads EXCEPT !.succeeded = @ + 1]
    /\ pc' = "main"
    /\ projected' = "none"
    /\ UNCHANGED <<config, win, sizes, internalTimer, programs, positionUniform,
                   boundFramebuffer, err, request, drawn, frames, resized>>

\* The atlas image fails to load (error or abort): the promise rejects, the
\* rejection is reported (console.error in the build bundle, an unhandled
\* rejection in the next one) and the main loop is never called.
LoadFail ==
    /\ pc = "loading"
    /\ pc' = "loadFailed"
    /\ err' = "LoadError"
    /\ loads' = [loads EXCEPT !.failed = @ + 1]
    /\ projected' = "none"
    /\ UNCHANGED <<config, win, sizes, internalTimer, programs, positionUniform,
                   boundFramebuffer, atlasTexture, request, drawn, frames, resized>>

\* -------------------------------------------------------------------- resize

\* (mutant) a listener called while a frame callback runs
InsideCallbacks == pc \in {"loading", "loadFailed", "idle", "dead", "frame"}

\* The host calls a listener only when no other callback is running: while
\* the atlas loads, after a failed load, between two frame callbacks, or after
\* a frame callback threw.
BetweenCallbacks == pc \in {"loading", "loadFailed", "idle", "dead"}

\* The window takes the size w and the resize listener runs resizeCanvas.
Resize(w) ==
    /\ BetweenCallbacks
    /\ win' = w
    /\ resized' = TRUE
    /\ LET call == resizeCanvas(variant, responsive, maintainAspectRatio, scalePerfectly,
                                viewWidth, viewHeight, w[1], w[2])
           p == setProjection(call)
           st == use([currentProgram |-> currentProgram, glProgram |-> glProgram,
                      lastUse |-> lastUse], "primitive", "positionOrder")
       IN  IF call = NoCall
           THEN /\ projected' = "none"
                /\ UNCHANGED <<sizes, programs, positionUniform>>
           ELSE /\ viewWidth' = p.viewWidth /\ viewHeight' = p.viewHeight
                /\ displayWidth' = p.displayWidth /\ displayHeight' = p.displayHeight
                /\ canvas' = canvasSize(p)
                /\ gameTextureSize' = textureSize(p)
                /\ projection' = MatrixProjection(variant, p.viewWidth, p.viewHeight)
                /\ projected' = "resize"
                /\ IF variant = "build"
                   THEN /\ currentProgram' = st.currentProgram
                        /\ glProgram' = st.glProgram
                        /\ lastUse' = st.lastUse
                        /\ positionUniform' =
                               [positionUniform EXCEPT
                                   !["primitive"] =
                                       plain(MatrixProjection(variant, p.viewWidth,
                                                              p.viewHeight))]
                        /\ UNCHANGED built
                   ELSE UNCHANGED <<programs, positionUniform>>
    /\ UNCHANGED <<config, pc, internalTimer, boundFramebuffer, atlas, err, request,
                   drawn, frames>>

\* -------------------------------------------------------------------- frames

\* The program a sprite draw or the composite uses, once activated.
ImageProgram == IF variant = "build" THEN "image" ELSE "main"
PrimitiveProgram == IF variant = "build" THEN "primitive" ELSE "main"

\* shader.use(positions) of the build bundle; the next bundle has one
\* program, bound once by prepareMainShader.
Use(program, positions) ==
    LET st == use([currentProgram |-> currentProgram, glProgram |-> glProgram,
                   lastUse |-> lastUse], program, positions)
    IN  IF variant = "build"
        THEN /\ currentProgram' = st.currentProgram
             /\ glProgram' = st.glProgram
             /\ lastUse' = st.lastUse
             /\ UNCHANGED built
        ELSE UNCHANGED programs

\* beginRender(): called by the main loop, at most `cap` times.
BeginRender(cap) ==
    /\ pc \in {"main", "idle"}
    /\ frames < cap
    /\ pc' = "frame"
    /\ frames' = frames + 1
    /\ boundFramebuffer' = "logical"
    /\ Use(ImageProgram, "positionOrder")
    /\ internalTimer' = timerStep(internalTimer)
    /\ request' = NoRequest
    /\ drawn' = NoDraw
    /\ projected' = "none"
    /\ UNCHANGED <<config, win, sizes, positionUniform, atlas, err, resized>>

\* The body of drawSprite for the image argument `image` (a number): the
\* position matrix is built on a copy of the projection and uploaded, then
\* comes the draw call, or the TypeError of reading `.t` of a missing image,
\* which leaves the frame callback.
SpriteDraw(kind, name, arg, image, x, y, t, color) ==
    LET k == spr[name].images
        i == limitImage(k, image)
        target == copy(<<"projection">>)
        mat == spriteMatrix(projection, name, x, y, t)
    IN  /\ Use(ImageProgram, "positionOrder")
        /\ projection' = IF target = <<"projection">> THEN values(mat) ELSE projection
        /\ positionUniform' = [positionUniform EXCEPT ![ImageProgram] = mat]
        /\ IF ImageExists(k, i)
           THEN /\ drawn' = [kind |-> kind, sprite |-> name, arg |-> arg, image |-> i,
                             fb |-> boundFramebuffer, program |-> glProgram',
                             matrix |-> mat, blend |-> spriteBlend(variant, color)]
                /\ UNCHANGED <<pc, err>>
           ELSE /\ pc' = "dead"
                /\ err' = "TypeError"
                /\ UNCHANGED drawn
        /\ projected' = "none"
        /\ UNCHANGED <<config, win, surfaces, internalTimer, boundFramebuffer, atlas,
                       frames, resized>>

\* draw.sprite(sprite, image, x, y, transform, colour...)
DrawSpriteAt(name, image, x, y, t, color) ==
    /\ pc = "frame"
    /\ request' = [op |-> "sprite", sprite |-> name, arg |-> image, x |-> x, y |-> y,
                   transform |-> t, color |-> color]
    /\ SpriteDraw("sprite", name, image, image, x, y, t, color)

\* draw.spriteSpeed(sprite, speed, x, y, transform, colour...): drawSprite
\* with the image the timer gives and the colour arguments handed on.
DrawSpriteSpeedAt(name, speed, x, y, t, color) ==
    /\ pc = "frame"
    /\ request' = [op |-> "spriteSpeed", sprite |-> name, arg |-> speed, x |-> x, y |-> y,
                   transform |-> t, color |-> color]
    /\ SpriteDraw("spriteSpeed", name, speed,
                  speedToImage(internalTimer, speed, spr[name].images), x, y, t,
                  speedColor(variant, color))

\* draw.sprite(sprite, image, 0, 0)
DrawSprite(name, image) == DrawSpriteAt(name, image, Num(0), Num(0), NoTransform, NoColor)

\* draw.spriteSpeed(sprite, speed, 0, 0)
DrawSpriteSpeed(name, speed) ==
    DrawSpriteSpeedAt(name, speed, Num(0), Num(0), NoTransform, NoColor)

\* (mutant) red alone taken as a colour
preparePrimitiveRedAlone(v, color) ==
    IF color = "none" THEN (IF v = "build" THEN "DrawError" ELSE "TypeError") ELSE "ok"

\* What preparePrimitive does with the colour arguments: "ok" (the blend
\* colour is set) or the error it throws.  The build bundle takes rcol, g, b, a
\* and throws DrawError unless rcol is a Color or g and b are both given; the
\* next bundle takes one colour (a Color or an array), reads four entries of
\* anything that is not a Color with 1 for each missing one, and fails only on
\* reading an entry of `undefined`.
preparePrimitive(v, color) ==
    IF v = "build"
    THEN IF color \in {"Color", "rgb"} THEN "ok" ELSE "DrawError"
    ELSE IF color = "none" THEN "TypeError" ELSE "ok"

\* drawLine / drawRect / drawCircle / drawPrimitive with the given colour
\* arguments: preparePrimitive, then the draw call; an error thrown by
\* preparePrimitive leaves the draw function and the frame callback.
DrawPrimitive(shape, color) ==
    /\ pc = "frame"
    /\ Use(PrimitiveProgram, shape)
    /\ request' = [NoRequest EXCEPT !.op = shape, !.sprite = color]
    /\ positionUniform' = IF variant = "build" THEN positionUniform
                          ELSE [positionUniform EXCEPT !["main"] = plain(closureProjection)]
    /\ IF preparePrimitive(variant, color) # "ok"
       THEN /\ pc' = "dead"
            /\ err' = preparePrimitive(variant, color)
            /\ UNCHANGED drawn
       ELSE /\ drawn' = [kind |-> shape, sprite |-> "none", arg |-> Num(0),
                         image |-> 0, fb |-> boundFramebuffer, program |-> glProgram',
                         matrix |-> positionUniform'[PrimitiveProgram], blend |-> <<>>]
            /\ UNCHANGED <<pc, err>>
    /\ projected' = "none"
    /\ UNCHANGED <<config, win, sizes, internalTimer, boundFramebuffer, atlas,
                   frames, resized>>

\* render() / endRender(): composite the game texture onto the display and
\* ask for the next frame callback.
Render ==
    /\ pc = "frame"
    /\ pc' = "idle"
    /\ boundFramebuffer' = "display"
    /\ Use(ImageProgram, "positionOrder")
    /\ positionUniform' = [positionUniform EXCEPT
                               ![ImageProgram] = plain(gameTexturePositionMatrix)]
    /\ drawn' = [kind |-> "composite", sprite |-> "none", arg |-> Num(0), image |-> 0,
                 fb |-> "display", program |-> glProgram',
                 matrix |-> plain(gameTexturePositionMatrix), blend |-> Opaque]
    /\ request' = NoRequest
    /\ projected' = "none"
    /\ UNCHANGED <<config, win, sizes, internalTimer, atlas, err, frames, resized>>

\* --------------------------------------------------------- Matrix objects

\* this.multiply(mat) on the object `self`: the receiver's values are
\* replaced, the receiver is returned.  `arg` holds the argument's values.
MatrixCall(op, self, arg) ==
    /\ ops < MaxOps
    /\ ops' = ops + 1
    /\ mats' = [mats EXCEPT ![self] = multiply(mats[self], arg)]
    /\ last' = [op |-> op, self |-> self, arg |-> arg, ret |-> self, before |-> mats]
    /\ UNCHANGED <<variant, gpuFaults, responsive, maintainAspectRatio, scalePerfectly,
                   atlasURL, win, pc, sizes, internalTimer, programs, positionUniform,
                   boundFramebuffer, atlas, err, request, drawn, frames, resized, projected>>

\* a.multiply(b) for two Matrix objects, which may be one and the same
MatrixMultiply(a, b) == MatrixCall(<<"multiply", b>>, a, mats[b])
\* a.translate(tx, ty), a.rotate(radians), a.scale(sx, sy)
MatrixTranslate(a, t) == MatrixCall(<<"translate", 0>>, a, translation(t[1], t[2]))
MatrixRotate(a, r) == MatrixCall(<<"rotate", 0>>, a, rotation(r[1], r[2]))
MatrixScale(a, k) == MatrixCall(<<"scale", 0>>, a, scaling(k[1], k[2]))

\* ----------------------------------------------------------- specifications

\* Spec: the whole life of a program whose GPU context works, in two windows.
FrameWindows == {<<850, 500>>, <<240, 400>>}

Init == InitIn(Variants, FrameWindows, {NoFaults}) /\ NoMatrices

Next ==
    \/ \E opt \in Options : InitializeBuild(opt)
    \/ \E opt \in Options : InitializeNext(opt)
    \/ LoadDone
    \/ LoadFail
    \/ \E w \in FrameWindows : Resize(w)
    \/ BeginRender(MaxFrames)
    \/ \E name \in SpriteNames, image \in ImageArgs : DrawSprite(name, image)
    \/ \E name \in SpriteNames, speed \in Speeds : DrawSpriteSpeed(name, speed)
    \/ \E shape \in Shapes, color \in ColorArgs : DrawPrimitive(shape, color)
    \/ Render

Spec == Init /\ [][Next]_vars

\* SpecResize: initialization and resize notifications in every window.
InitResize == InitIn(Variants, Windows, {NoFaults}) /\ NoMatrices

NextResize ==
    \/ \E opt \in Options : InitializeBuild(opt)
    \/ \E opt \in Options : InitializeNext(opt)
    \/ \E w \in Windows : Resize(w)

SpecResize == InitResize /\ [][NextResize]_vars

\* SpecTimer: the frames of the example's main loop, long enough for the
\* timer to wrap.
MaxTimerFrames == 4100
TimerOptions == OptionSets({<<Num(400), Num(240)>>}, {NoSize})
\* the speeds of Spec and a speed of a third of an image per frame
TimerSpeeds == Speeds \cup {<<1, 3>>}

InitTimer == InitIn(Variants, {<<850, 500>>}, {NoFaults}) /\ NoMatrices

NextTimer ==
    \/ \E opt \in {o \in TimerOptions : o.responsive = "scale" /\ o.maintainAspectRatio
                                         /\ o.scalePerfectly /\ o.atlasURL} :
            InitializeBuild(opt) \/ InitializeNext(opt)
    \/ LoadDone
    \/ BeginRender(MaxTimerFrames)
    \/ \E name \in SpriteNames, speed \in TimerSpeeds : DrawSpriteSpeed(name, speed)
    \/ Render

SpecTimer == InitTimer /\ [][NextTimer]_vars

\* SpecShader: initialization on a GPU context that fails some steps of
\* building a program: any set of slot lookups, or one other step.
SlotSteps == {"positionAttribute", "positionUniform", "blendUniform", "textureAttribute",
              "textureUniform"}
FaultSets == SUBSET SlotSteps \cup {{st} : st \in Steps}
ShaderOptions == {o \in TimerOptions : o.responsive = "scale" /\ o.maintainAspectRatio
                                        /\ o.scalePerfectly}

InitShader ==
    InitIn(Variants, {<<850, 500>>}, [image : FaultSets, primitive : FaultSets]) /\ NoMatrices

NextShader ==
    \/ \E opt \in ShaderOptions : InitializeBuild(opt) \/ InitializeNext(opt)
    \/ LoadDone
    \/ LoadFail

SpecShader == InitShader /\ [][NextShader]_vars

\* SpecMatrix: method calls on three Matrix objects, in either bundle (the
\* Matrix class is the same in both).
Objects == {1, 2, 3}
\* the identity, a matrix with nine different entries and a projection
Generic == <<Num(2), Num(-4), Num(3), Num(0), Num(-1), Num(1), Num(-3), Num(4), Num(-2)>>
BaseMatrices == {identity, Generic, MatrixProjection("build", Num(4), Num(2))}
Translations == {<<Num(2), Num(3)>>}
\* <<cosine, sine>> of a quarter turn and of the angle of the 3-4-5 triangle
Rotations == {<<Num(0), Num(1)>>, <<<<3, 5>>, <<4, 5>>>>}
Scalings == {<<Num(2), Num(-1)>>}

InitMatrix ==
    /\ InitIn(Variants, {<<850, 500>>}, {NoFaults})
    /\ mats \in [Objects -> BaseMatrices]
    /\ last = NoOp
    /\ ops = 0

NextMatrix ==
    \/ \E a \in Objects, b \in Objects : MatrixMultiply(a, b)
    \/ \E a \in Objects, t \in Translations : MatrixTranslate(a, t)
    \/ \E a \in Objects, r \in Rotations : MatrixRotate(a, r)
    \/ \E a \in Objects, k \in Scalings : MatrixScale(a, k)

SpecMatrix == InitMatrix /\ [][NextMatrix]_vars

\* SpecStart: initialization on a GPU context that may fail one step of
\* building each program, the atlas load, and the first frame.
StartFaults == {{}} \cup {{st} : st \in Steps}

InitStart ==
    InitIn(Variants, {<<850, 500>>}, [image : StartFaults, primitive : StartFaults]) /\ NoMatrices

NextStart ==
    \/ \E opt \in ShaderOptions : InitializeBuild(opt) \/ InitializeNext(opt)
    \/ LoadDone
    \/ LoadFail
    \/ \E w \in FrameWindows : Resize(w)
    \/ BeginRender(MaxFrames)
    \/ \E name \in SpriteNames : DrawSprite(name, Num(0))
    \/ \E shape \in Shapes : DrawPrimitive(shape, "Color")
    \/ Render

SpecStart == InitStart /\ [][NextStart]_vars

\* SpecAffine: the Matrix objects a program makes: each starts as the
\* identity or as a projection and is changed by translate, rotate, scale and
\* multiply by another such matrix.
AffineBase == {identity, MatrixProjection("build", Num(4), Num(2)),
               MatrixProjection("next", Num(4), Num(2))}

InitAffine ==
    /\ InitIn(Variants, {<<850, 500>>}, {NoFaults})
    /\ mats \in [Objects -> AffineBase]
    /\ last = NoOp
    /\ ops = 0

SpecAffine == InitAffine /\ [][NextMatrix]_vars

\* SpecDraw: the frames of the example with sprite draws at several places,
\* with transform callbacks and with colour arguments.
DrawPlaces == {<<Num(0), Num(0)>>, <<Num(100), <<51, 2>>>>}
DrawImages == {Num(1)}
DrawSpeeds == {<<1, 5>>}
\* m => m.translate(1, 0), m => m.translate(1/2, -2), a quarter turn,
\* m => m.scale(2, -1)
Transforms == {NoTransform,
               [op |-> "translate", a |-> Num(1), b |-> Num(0)],
               [op |-> "translate", a |-> <<1, 2>>, b |-> Num(-2)],
               [op |-> "rotate", a |-> Num(0), b |-> Num(1)],
               [op |-> "scale", a |-> Num(2), b |-> Num(-1)]}
\* no colour; a Color; r, g, b; r, g, b, a with r = 0; r and b without g
SpriteColors == {NoColor,
                 [kind |-> "Color", c |-> <<<<1, 2>>, Num(0), Num(1), <<1, 2>>>>],
                 [kind |-> "rgb", c |-> <<<<1, 2>>, Num(1), <<1, 4>>, Undefined>>],
                 [kind |-> "rgb", c |-> <<Num(0), Num(1), Num(0), <<1, 2>>>>],
                 [kind |-> "rgb", c |-> <<Num(1), Undefined, Num(1), Undefined>>]}

InitDraw == InitIn(Variants, {<<850, 500>>}, {NoFaults}) /\ NoMatrices

NextDraw ==
    \/ \E opt \in {o \in TimerOptions : o.responsive = "scale" /\ o.maintainAspectRatio
                                         /\ o.scalePerfectly /\ o.atlasURL} :
            InitializeBuild(opt) \/ InitializeNext(opt)
    \/ LoadDone
    \/ \E w \in FrameWindows : Resize(w)
    \/ BeginRender(MaxFrames)
    \/ \E name \in SpriteNames, image \in DrawImages, at \in DrawPlaces, t \in Transforms,
          color \in SpriteColors : DrawSpriteAt(name, image, at[1], at[2], t, color)
    \/ \E name \in SpriteNames, speed \in DrawSpeeds, at \in DrawPlaces, t \in Transforms,
          color \in SpriteColors : DrawSpriteSpeedAt(name, speed, at[1], at[2], t, color)
    \/ \E shape \in Shapes : DrawPrimitive(shape, "Color")
    \/ Render

SpecDraw == InitDraw /\ [][NextDraw]_vars

\* ------------------------------------------------------------------- claims

\* A step that is a beginRender call.
BeginRenderStep == frames' = frames + 1

\* C1: between operations the frame timer is an integer in 0..4096; each
\* beginRender takes it from t to t + 1 when t < 4096 and from 4096 to 0, so it
\* is never 4097 or more.
C1_TimerWraps ==
    /\ [](internalTimer \in 0..4096)
    /\ [][BeginRenderStep =>
            internalTimer' = IF internalTimer < 4096 THEN internalTimer + 1 ELSE 0]_vars

\* C1 witness: the frame after the one with timer 4096 has begun, with timer 0.
C1_Wrapped == frames = 4097 /\ internalTimer = 0 /\ pc = "frame"

\* C2: for a sprite with k >= 1 images a sprite draw uses the requested index
\* wrapped modulo k into 0..k-1 and never raises an error: k, k + 1 and -1
\* select images 0, 1 and k - 1, and every integer index, negative ones
\* included, selects an existing image.
C2_IndexWraps ==
    request.op = "sprite" =>
        /\ err = "none"
        /\ drawn.kind = "sprite"
        /\ drawn.image = (request.arg[1] \div request.arg[2]) % spr[request.sprite].images

\* floor(n * s) mod k for a rational s >= 0
FloorMod(n, s, k) == ((n * s[1]) \div s[2]) % k

\* C3: in the n-th frame (the timer is n after beginRender, up to the wrap)
\* spriteSpeed with speed s on a sprite with k images draws image
\* floor(n * s) mod k; with s = 1/5 and k = 4 the first five frames draw images
\* 0, 0, 0, 0, 1.
C3_SpeedImage ==
    /\ (pc = "frame" /\ frames <= 4096) => internalTimer = frames
    /\ request.op = "spriteSpeed" =>
          /\ drawn.kind = "spriteSpeed"
          /\ drawn.image = FloorMod(internalTimer, request.arg, spr[request.sprite].images)
          /\ (request.sprite = "mario" /\ request.arg = <<1, 5>> /\ frames \in 1..5) =>
                drawn.image = <<0, 0, 0, 0, 1>>[frames]

\* C3 witness: the fifth frame draws image 1 of the four-image sprite at speed 1/5.
C3_FifthFrame ==
    /\ frames = 5 /\ drawn.kind = "spriteSpeed" /\ drawn.sprite = "mario"
    /\ request.arg = <<1, 5>> /\ drawn.image = 1

\* initialize has run resizeCanvas (every later step of SpecResize is one too)
Resizable == pc \notin {"start", "failed"}
WinW == win[1]
WinH == win[2]
Is(size, w, h) == size = <<Num(w), Num(h)>>

\* C4: under `scale` with aspect lock and pixel-perfect, resizeCanvas sets the
\* display size to the logical size times a positive integer f and leaves the
\* logical size as it was; logical 400x240 in an 850x500 window gives f = 2 and
\* a display of 800x480.
C4_IntegerScale ==
    /\ [](Resizable /\ responsive = "scale" /\ maintainAspectRatio /\ scalePerfectly =>
            LET f == RDiv(displayWidth, viewWidth)
            IN  /\ IsInt(f) /\ f[1] >= 1
                /\ displayWidth = RMul(viewWidth, f)
                /\ displayHeight = RMul(viewHeight, f)
                /\ (Is(<<viewWidth, viewHeight>>, 400, 240) /\ win = <<850, 500>>) =>
                      Is(<<displayWidth, displayHeight>>, 800, 480))
    /\ [][Resizable /\ responsive = "scale" /\ maintainAspectRatio /\ scalePerfectly =>
            viewWidth' = viewWidth /\ viewHeight' = viewHeight]_vars

\* C4 witness: a resize notification in the 850x500 window left logical
\* 400x240 with the display at 800x480.
C4_TwiceLogical ==
    /\ resized /\ responsive = "scale" /\ maintainAspectRatio /\ scalePerfectly
    /\ win = <<850, 500>>
    /\ Is(<<viewWidth, viewHeight>>, 400, 240)
    /\ Is(<<displayWidth, displayHeight>>, 800, 480)

\* max(1, min(W / vw, H / vh)), floored when pixel-perfect
MinRatioScale ==
    LET m == RMax(Num(1), RMin(RDiv(Num(WinW), viewWidth), RDiv(Num(WinH), viewHeight)))
    IN  IF scalePerfectly THEN RFloor(m) ELSE m

\* C5: under `scale` with aspect lock the scale factor resizeCanvas uses is
\* max(1, min(W / logicalWidth, H / logicalHeight)), floored when pixel-perfect,
\* so in a window at least as large as the logical size the display fits inside
\* the window in both dimensions.
C5_ScaleIsMinRatio ==
    Resizable /\ responsive = "scale" /\ maintainAspectRatio =>
        /\ displayWidth = RMul(viewWidth, MinRatioScale)
        /\ displayHeight = RMul(viewHeight, MinRatioScale)
        /\ (RLe(viewWidth, Num(WinW)) /\ RLe(viewHeight, Num(WinH))) =>
              RLe(displayWidth, Num(WinW)) /\ RLe(displayHeight, Num(WinH))

\* C6: under `stretch` with aspect lock the size resizeCanvas computes fits
\* inside the window: its width is at most window.innerWidth and its height at
\* most window.innerHeight.
C6_StretchFits ==
    Resizable /\ responsive = "stretch" /\ maintainAspectRatio =>
        RLe(displayWidth, Num(WinW)) /\ RLe(displayHeight, Num(WinH))

\* C7: under `stretch` with aspect lock resizeCanvas applies one uniform scale:
\* the width/height ratio of the size it passes to setProjection is the
\* width/height ratio of the logical size before the call, in every window and
\* after any number of earlier resizes.
C7_StretchKeepsRatio ==
    [][Resizable /\ responsive = "stretch" /\ maintainAspectRatio =>
         RDiv(viewWidth', viewHeight') = RDiv(viewWidth, viewHeight)]_vars

C9_FrameCompletes ==
    /\ pc # "dead"
    /\ (pc = "idle" => boundFramebuffer = "display" /\ drawn.kind = "composite")
    /\ (drawn.kind \in {"sprite", "spriteSpeed"} \cup Shapes => drawn.fb = "logical")

\* the slots each variant of the build bundle's Shader must resolve
RequiredImage == {"positionAttribute", "positionUniform", "blendUniform", "textureAttribute",
                  "textureUniform"}
RequiredPrimitive == {"positionAttribute", "positionUniform", "blendUniform"}

\* C10: when a required slot fails to resolve while a Shader is constructed
\* (position attribute, position-matrix uniform, blend uniform and, for the
\* image variant, texture attribute and texture-matrix uniform), construction
\* raises an error, and the shader is neither installed as imageShader or
\* primitiveShader nor the current program; the primitive variant does not need
\* the texture slots.
C10_MissingSlotFails ==
    (variant = "build" /\ pc # "start") =>
        /\ gpuFaults.image \cap RequiredImage # {} =>
              /\ pc = "failed" /\ err = "ShaderError"
              /\ shaders = {}
              /\ currentProgram = "null" /\ glProgram = "null"
        /\ (gpuFaults.image = {} /\ gpuFaults.primitive \cap RequiredPrimitive # {}) =>
              /\ pc = "failed" /\ err = "ShaderError"
              /\ "primitive" \notin shaders
              /\ currentProgram # "primitive" /\ glProgram # "primitive"
        /\ (gpuFaults.image = {} /\ gpuFaults.primitive \subseteq {"textureAttribute", "textureUniform"}) =>
              /\ pc # "failed" /\ err # "ShaderError"
              /\ shaders = {"image", "primitive"}

\* C10 witness: the primitive shader's blend uniform did not resolve, and
\* initialization failed with only the image shader installed.
C10_BlendMissing ==
    /\ variant = "build" /\ pc = "failed" /\ err = "ShaderError"
    /\ gpuFaults = [image |-> {}, primitive |-> {"blendUniform"}]
    /\ shaders = {"image"}

\* C11: Shader.use issues gl.useProgram exactly when the shader is not
\* already the current program, so the second of two consecutive activations of
\* one shader issues no bind and leaves the GPU's program as it was, while every
\* activation uploads the positions it was given to the shader's buffer.
C11_UseBindsOnce ==
    /\ [](variant = "build" /\ lastUse # NoUse =>
            /\ lastUse.bind <=> ~lastUse.current
            /\ currentProgram = lastUse.program /\ glProgram = lastUse.program
            /\ lastUse.upload # "none"
            /\ (pc = "frame" /\ request.op \in Shapes => lastUse.upload = request.op)
            /\ (pc = "frame" /\ request.op \in {"sprite", "spriteSpeed"} =>
                    lastUse.upload = "positionOrder"))
    /\ [][variant = "build" /\ lastUse' # lastUse /\ currentProgram = lastUse'.program =>
            ~lastUse'.bind /\ glProgram' = glProgram]_vars

\* C11 witness: a sprite draw activated the image shader right after
\* beginRender had: no bind, the unit quad uploaded again.
C11_SecondUse ==
    /\ variant = "build" /\ request.op = "sprite" /\ drawn.kind = "sprite"
    /\ lastUse = [program |-> "image", current |-> TRUE, bind |-> FALSE,
                  upload |-> "positionOrder"]

\* the colour arguments the build bundle's preparePrimitive rejects: a first
\* argument that is not a Color with green or blue missing
Unparseable == {"missing", "none"}

\* C12: in the build bundle a line, rect, circle or primitive draw whose first
\* colour argument is not a Color and whose green or blue argument is missing
\* raises DrawError and issues no GPU draw call for that request.
C12_BadColourRaises ==
    [][(variant = "build" /\ pc = "frame" /\ request'.op \in Shapes
            /\ request'.sprite \in Unparseable) =>
         err' = "DrawError" /\ drawn' = drawn]_vars

\* C12 witness: a rect draw with red alone raised DrawError after a sprite
\* draw, whose draw call is still the last one issued.
C12_RectRaised ==
    /\ variant = "build" /\ err = "DrawError"
    /\ request.op = "rect" /\ request.sprite = "missing"
    /\ drawn.kind = "sprite"

\* C13: a primitive draw that fails with DrawError aborts only that draw: the
\* frame callback goes on (to render and to the next frame) after it.
C13_DrawErrorIsolated == err = "DrawError" => pc # "dead"

\* the main loop has been called
Looping == pc \in {"main", "frame", "idle", "dead"}

\* C14: when an atlas URL is configured, however the load interleaves with
\* resize notifications, the main loop is called, beginRender runs and a draw
\* call is issued only in states where the atlas texture handle is installed.
C14_NoFrameBeforeAtlas ==
    atlasURL => (Looping \/ frames > 0 \/ drawn # NoDraw => atlasTexture = "loaded")

\* C14 witness: the window was resized while the atlas loaded, and the first
\* frame draws a sprite with the handle installed.
C14_DrawAfterLoad ==
    /\ atlasURL /\ resized /\ frames = 1 /\ pc = "frame"
    /\ drawn.kind = "sprite" /\ atlasTexture = "loaded"

\* C15: an atlas load is issued once and settles once, as success or as
\* failure: after a success the handle is installed; after a failure the error
\* is reported, the handle is not installed in any later state and no second
\* load is issued.
C15_LoadSettlesOnce ==
    /\ loads.issued = (IF atlasURL THEN 1 ELSE 0)
    /\ loads.succeeded + loads.failed <= loads.issued
    /\ (pc = "loading" <=> loads.issued = 1 /\ loads.succeeded + loads.failed = 0)
    /\ (loads.succeeded = 1 => atlasTexture = "loaded")
    /\ (loads.failed = 1 => atlasTexture = "none" /\ err = "LoadError" /\ pc = "loadFailed")

\* C15 witness: the load failed, and a resize notification later the handle is
\* still not installed and no load is pending.
C15_FailedForGood ==
    /\ loads = [issued |-> 1, succeeded |-> 0, failed |-> 1]
    /\ resized /\ projected = "resize" /\ atlasTexture = "none" /\ pc = "loadFailed"

\* C16: setProjection never runs between a beginRender and its render: no step
\* that starts, continues or ends a frame runs it or changes the sizes and the
\* projection; it runs in initialize and in resize handlers between frame
\* callbacks only.
C16_NoProjectionInFrame ==
    /\ [](/\ projected \in {"none", "initialize", "resize"}
          /\ (projected = "initialize" => frames = 0)
          /\ (projected = "resize" => pc \in {"loading", "loadFailed", "idle", "dead"}))
    /\ [][(pc = "frame" \/ pc' = "frame" \/ frames' # frames) =>
            projected' = "none" /\ sizes' = sizes]_vars

\* C16 witness: a resize handler ran setProjection between the first frame and
\* the second.
C16_ResizedBetweenFrames ==
    projected = "resize" /\ frames = 1 /\ pc = "idle" /\ err = "none"

\* C17: the main loop is started at most once, and only when every shader
\* program of the bundle has been constructed and setProjection has set the
\* logical size and the projection; so no frame begins and no draw call is
\* issued before that.
C17_LoopAfterInit ==
    /\ [](Looping \/ frames > 0 \/ drawn # NoDraw =>
            /\ shaders = (IF variant = "build" THEN {"image", "primitive"} ELSE {"main"})
            /\ projection # <<>>
            /\ Truthy(viewWidth) /\ Truthy(viewHeight)
            /\ err # "ShaderError")
    /\ [][(pc' = "main" /\ pc # "main") => (pc \in {"start", "loading"} /\ frames = 0)]_vars
    /\ [][Looping => pc' \notin {"start", "loading", "main"} \/ pc' = pc]_vars

\* C17 witness: on a GPU context with an irrelevant fault, the first frame of
\* the build bundle draws a rect with both shaders installed.
C17_FirstDraw ==
    /\ variant = "build" /\ frames = 1 /\ drawn.kind = "rect"
    /\ gpuFaults.primitive = {"textureUniform"}
    /\ shaders = {"image", "primitive"} /\ projection # <<>>

\* The row-major matrix product X.Y: entry (i, j) is row i of X times column j
\* of Y.
MatMul(X, Y) ==
    [n \in 1..9 |->
        LET i == (n - 1) \div 3
            j == (n - 1) % 3
        IN  RAdd(RAdd(RMul(X[3 * i + 1], Y[j + 1]), RMul(X[3 * i + 2], Y[j + 4])),
                 RMul(X[3 * i + 3], Y[j + 7]))]

\* C18: A.multiply(B) replaces A's nine values by the row-major product B.A,
\* returns the object A itself and leaves the values of B (an object other
\* than A) and of every other matrix unchanged.
C18_MultiplyInPlace ==
    last.op[1] = "multiply" =>
        LET a == last.self
            b == last.op[2]
        IN  /\ mats[a] = MatMul(last.before[b], last.before[a])
            /\ last.ret = a
            /\ \A o \in Objects \ {a} : mats[o] = last.before[o]

\* C18 witness: the matrix with nine different entries was multiplied by the
\* projection, with which it does not commute, and now holds the product.
C18_Multiplied ==
    /\ last.op = <<"multiply", 2>> /\ last.self = 1 /\ ops = 1
    /\ last.before[1] = Generic /\ mats[2] = MatrixProjection("build", Num(4), Num(2))
    /\ mats[1] = MatMul(mats[2], Generic)
    /\ mats[1] # MatMul(Generic, mats[2])

\* built from translate, rotate and scale: the last column is 0, 0, 1
IsAffine(m) == m[3] = Num(0) /\ m[6] = Num(0) /\ m[9] = Num(1)

\* C19: multiply is associative: for affine matrices A, B and C, composing A
\* with B and the result with C gives the same nine values as composing A with
\* the composition of B with C, exactly (the values are exact here).
C19_MultiplyAssociative ==
    LET A == mats[1]
        B == mats[2]
        C == mats[3]
    IN  (mats # <<>> /\ IsAffine(A) /\ IsAffine(B) /\ IsAffine(C)) =>
            multiply(multiply(A, B), C) = multiply(A, multiply(B, C))

\* C19 witness: three affine matrices, two of them made by translate and
\* rotate, that do not commute, and their composition is not the identity.
C19_Composed ==
    /\ ops = 2 /\ last.op[1] \in {"translate", "rotate", "scale"}
    /\ IsAffine(mats[1]) /\ IsAffine(mats[2]) /\ IsAffine(mats[3])
    /\ mats[1] # mats[2] /\ mats[2] # mats[3] /\ mats[1] # mats[3]
    /\ identity \notin {mats[1], mats[2], mats[3]}
    /\ multiply(mats[1], mats[2]) # multiply(mats[2], mats[1])
    /\ multiply(mats[2], mats[3]) # multiply(mats[3], mats[2])
    /\ multiply(multiply(mats[1], mats[2]), mats[3]) # identity

\* C20: the projection setProjection stores for a logical size w x h maps the
\* logical point (0, 0) to one corner of clip space and (w, h) to the
\* diagonally opposite corner; in the build bundle (0, 0) goes to (-1, 1) and
\* (w, h) to (1, -1).
C20_ProjectionCorners ==
    projection # <<>> =>
        LET o == Position(projection, Num(0), Num(0))
            f == Position(projection, viewWidth, viewHeight)
        IN  /\ projection = MatrixProjection(variant, viewWidth, viewHeight)
            /\ o[1] \in {Num(-1), Num(1)} /\ o[2] \in {Num(-1), Num(1)}
            /\ f = <<RNeg(o[1]), RNeg(o[2])>>
            /\ (variant = "build" => o = <<Num(-1), Num(1)>> /\ f = <<Num(1), Num(-1)>>)

\* C20 witness: after a resize the build bundle's logical size is 1000/3 x 200
\* and its far corner is mapped to (1, -1).
C20_FarCorner ==
    /\ variant = "build" /\ resized
    /\ viewWidth = <<1000, 3>> /\ viewHeight = Num(200)
    /\ Position(projection, viewWidth, viewHeight) = <<Num(1), Num(-1)>>

\* C21 (as stated): starting from the identity or from a projection, after any
\* sequence of translate, rotate, scale and multiply by such a matrix, the
\* stored values 6, 7 and 8 (the third row of the row-major storage) are
\* 0, 0, 1.
C21_BottomRow ==
    \A o \in DOMAIN mats : mats[o][7] = Num(0) /\ mats[o][8] = Num(0) /\ mats[o][9] = Num(1)

\* C21 (amended): starting from the identity or from a projection, after any
\* sequence of translate, rotate, scale and multiply by such a matrix, the
\* stored values 2, 5 and 8 (the last entry of each stored row) are 0, 0, 1; the
\* stored values 6 and 7 hold the translation.
C21_LastColumn ==
    \A o \in DOMAIN mats : mats[o][3] = Num(0) /\ mats[o][6] = Num(0) /\ mats[o][9] = Num(1)

\* C21 witness: the identity was translated by (2, 3) and then turned, and
\* holds the translation in its stored values 6 and 7.
C21_Translated ==
    /\ ops = 2 /\ last.op[1] = "rotate" /\ last.before[last.self] = translation(Num(2), Num(3))
    /\ mats[last.self][7] # Num(0) /\ mats[last.self][3] = Num(0)

\* C22: between two setProjection calls the cached projection keeps its
\* values: no step of a frame (beginRender, a sprite, spriteSpeed or
\* primitive draw with any transform callback, the composite) changes them.
C22_ProjectionKept ==
    [][(pc = "frame" \/ pc' = "frame") => projection' = projection]_vars

\* C22 witness: a sprite was drawn with a transform callback that turns the
\* matrix it is given, and the projection is still Matrix.projection of the
\* logical size.
C22_DrawnTurned ==
    /\ pc = "frame" /\ request.op = "sprite" /\ drawn.kind = "sprite"
    /\ request.transform.op = "rotate"
    /\ values(drawn.matrix) # projection
    /\ projection = MatrixProjection(variant, viewWidth, viewHeight)

\* The logical point of the unit-quad vertex (u, v) of the sprite draw r.
SpritePoint(r, u, v) ==
    LET sp == spr[r.sprite]
        a == IF r.transform.op = "translate" THEN r.transform.a ELSE Num(0)
        b == IF r.transform.op = "translate" THEN r.transform.b ELSE Num(0)
    IN  <<RAdd(RAdd(r.x, RMul(Num(sp.width), RAdd(Num(u), a))), Num(-sp.originX)),
          RAdd(RAdd(r.y, RMul(Num(sp.height), RAdd(Num(v), b))), Num(-sp.originY))>>

\* C23: a sprite of size w x h with origin (ox, oy) drawn at (x, y) with the
\* callback m => m.translate(a, b), or with none (a = b = 0), uploads a position
\* matrix that maps the unit-quad vertex (u, v) to the image under the current
\* projection of the logical point (x + w*(u + a) - ox, y + h*(v + b) - oy).
C23_SpriteMatrix ==
    (pc = "frame" /\ request.op = "sprite"
        /\ request.transform.op \in {"none", "translate"}) =>
        \A u \in {0, 1}, v \in {0, 1} :
            Position(values(drawn.matrix), Num(u), Num(v))
                = Position(projection, SpritePoint(request, u, v)[1],
                           SpritePoint(request, u, v)[2])

\* C23 witness: mario (16 x 32, origin (8, 0)) drawn at (100, 25.5) with
\* m => m.translate(1, 0) has its corner (0, 0) at the logical point (108, 25.5).
C23_OneWidthRight ==
    /\ pc = "frame" /\ request.op = "sprite" /\ request.sprite = "mario"
    /\ request.x = Num(100) /\ request.y = <<51, 2>>
    /\ request.transform = [op |-> "translate", a |-> Num(1), b |-> Num(0)]
    /\ Position(values(drawn.matrix), Num(0), Num(0))
           = Position(projection, Num(108), <<51, 2>>)

\* C24: at every GPU draw call the program bound on the context is the image
\* shader for sprite and spriteSpeed draws and for the composite, and the
\* primitive shader for line, rect, circle and primitive draws, whichever
\* program the draw before left bound (the next bundle has one program for
\* both).
C24_BoundProgram ==
    /\ drawn.kind \in {"sprite", "spriteSpeed", "composite"} =>
           drawn.program = (IF variant = "build" THEN "image" ELSE "main")
    /\ drawn.kind \in Shapes =>
           drawn.program = (IF variant = "build" THEN "primitive" ELSE "main")

\* C24 witness: a rect was drawn with the primitive shader, which its use()
\* had to bind because a sprite draw had left the image shader bound.
C24_RectAfterSprite ==
    /\ variant = "build" /\ pc = "frame"
    /\ drawn.kind = "rect" /\ drawn.program = "primitive"
    /\ lastUse.program = "primitive" /\ lastUse.bind
    /\ positionUniform["image"].sprite = "mario"

\* C28: in the build bundle Shader.currentProgram names the program bound on
\* the GPU context, and is null while none has been bound, in every reachable
\* state.
C28_CurrentIsBound == variant = "build" => currentProgram = glProgram

\* C28 witness: in the second frame a line draw made the primitive shader
\* the current program by binding it.
C28_PrimitiveCurrent ==
    /\ variant = "build" /\ pc = "frame" /\ frames = 2
    /\ request.op = "line" /\ lastUse.bind
    /\ currentProgram = "primitive" /\ glProgram = "primitive"

\* C25: after initialization and after every setProjection or resize, both
\* canvases have exactly the display size, the projection is
\* Matrix.projection(viewWidth, viewHeight) and the game texture is allocated
\* at exactly viewWidth x viewHeight.
C25_SurfacesMatch ==
    pc \notin {"start", "failed"} =>
        /\ canvas = <<displayWidth, displayHeight>>
        /\ projection = MatrixProjection(variant, viewWidth, viewHeight)
        /\ gameTextureSize = <<viewWidth, viewHeight>>

\* C26: for a speed in (0, 1], the image spriteSpeed draws in the next frame
\* (after the timer's next step, its wrap from 4096 to 0 included) is the
\* image it drew in this frame or the next index modulo the sprite's image
\* count.
C26_NextFrameImage ==
    (pc = "frame" /\ request.op = "spriteSpeed" /\ RLe(request.arg, Num(1))) =>
        LET k == spr[request.sprite].images
            later == limitImage(k, speedToImage(timerStep(internalTimer), request.arg, k))
        IN  later = drawn.image \/ later = (drawn.image + 1) % k

\* C27: spriteSpeed issues the draw that sprite issues for the image
\* floor(timer * speed) mod imageCount and the same place, transform callback
\* and colour arguments: the same position matrix, the same image's texture
\* matrix and the same blend colour.
C27_SpeedDelegates ==
    (pc = "frame" /\ request.op = "spriteSpeed") =>
        /\ drawn.kind = "spriteSpeed" /\ drawn.sprite = request.sprite
        /\ drawn.image = FloorMod(internalTimer, request.arg, spr[request.sprite].images)
        /\ values(drawn.matrix)
              = spritePositionMatrix(projection, spr[request.sprite], request.x, request.y,
                                     request.transform)
        /\ drawn.blend = spriteBlend(variant, request.color)

\* C29: at every line, rect, circle and primitive draw call the position
\* matrix uniform of the program that draws it holds the values of the current
\* projection.
C29_PrimitiveProjection ==
    (pc = "frame" /\ drawn.kind \in Shapes) =>
        /\ drawn.matrix = positionUniform[PrimitiveProgram]
        /\ values(drawn.matrix) = projection

\* C30: when the construction of a shader program fails, at whatever step,
\* every GPU object it had created has been deleted when the error leaves it:
\* a program that was not installed holds no GPU object.
C30_FailedHoldsNothing ==
    pc = "failed" => \A p \in Programs \ shaders : gpuObjects[p] = {}

====
